---- MODULE Spec2Model ----
(***************************************************************************)
(* A model of goset: a set of arbitrary values keyed by a derived string   *)
(* hash (hash.go), an unsynchronised core (unsafe_set.go) and a wrapper    *)
(* guarding the core with a reader/writer lock (the ThreadSafeSet file).   *)
(*                                                                         *)
(* Spec      : two set objects used by one caller at a time (every call    *)
(*             runs to completion before the next one starts).             *)
(* SpecAlgebra: two operands drawn from the sets a program can build and   *)
(*             one call of a binary operation on them.                     *)
(* SpecConc  : one guarded set used by two threads; a lock acquisition,    *)
(*             each access to the core's fields and a lock release are     *)
(*             steps of their own.                                         *)
(***************************************************************************)
EXTENDS Integers, Sequences, FiniteSets, TLC

\* ------------------------------------------------------------------ bounds
\* The int elements offered to Add and Remove are 1..MaxInt.
MaxInt == 2

\* The operands of the set algebra hold int elements of 1..MaxElem.
MaxElem == 4

\* Shared locks that a panicking call never released are counted up to here
\* (nothing releases them, so only "none" and "some" can be told apart).
MaxLeak == 1

\* The most arguments a variadic call is given.
MaxArgs == 2

\* ------------------------------------------------------------------ values
\* A Go value of dynamic type typ.  n carries the payload of an int, s the
\* payload of a string (or a Person's Name), hob a Person's Hobbies.
IntVal(n) == [typ |-> "int", n |-> n, s |-> "", hob |-> << >>]

StrVal(s) == [typ |-> "string", n |-> 0, s |-> s, hob |-> << >>]

PersonVal(name, hobbies) == [typ |-> "Person", n |-> 0, s |-> name, hob |-> hobbies]

\* A value of a type that is neither native-hashable nor Hashable ([]int).
SliceVal == [typ |-> "[]int", n |-> 0, s |-> "", hob |-> << >>]

\* The nil interface value (no value).
NoVal == [typ |-> "nil", n |-> 0, s |-> "", hob |-> << >>]

\* A value of a numeric kind typ: an integer, a float of integral value n,
\* or the complex number n+0i.
NumVal(typ, n) == [typ |-> typ, n |-> n, s |-> "", hob |-> << >>]

\* A value of a type that is no native kind and has no Hash method (bool).
BoolVal == [typ |-> "bool", n |-> 0, s |-> "", hob |-> << >>]

\* The nil reflect.Type of a set that has no fixed element type.
NilType == "nil"

\* The two concrete implementations of the Set interface.
Variants == {"ThreadUnsafeSet", "ThreadSafeSet"}

\* Two Person values that differ but whose Hash() strings are both "ab".
Persons == {PersonVal("ab", << >>), PersonVal("a", <<"b">>)}

\* The values of other types than int: a string whose hash key is that of
\* the int 1, the two Persons, and an unhashable value.
OtherVals == {StrVal("1")} \cup Persons \cup {SliceVal}

\* The arguments offered to Add and Remove.
Vals == {IntVal(n) : n \in 1..MaxInt} \cup OtherVals

\* The values the operands of the set algebra are built from.
AlgVals == {IntVal(n) : n \in 1..MaxElem} \cup OtherVals \cup {StrVal("a")}

\* ----------------------------------------------------------------- hash.go
\* The types of this model that implement Hashable.
HashableTypes == {"Person"}

\* The native kinds the type switch of isHashableObj lists.
NativeTypes ==
    {"int", "int8", "int16", "int32", "int64", "uint", "uint8", "uint16",
     "uint32", "uint64", "uintptr", "float32", "float64", "complex64",
     "complex128", "string"}

isHashableObj(obj) == obj.typ \in HashableTypes \cup NativeTypes

isNativeHashableObj(obj) ==
    IF ~isHashableObj(obj) THEN FALSE
    ELSE IF obj.typ \in HashableTypes THEN FALSE
    ELSE TRUE

Digits == <<"0", "1", "2", "3", "4", "5", "6", "7", "8", "9">>

RECURSIVE ItoaNat(_)
ItoaNat(n) ==
    IF n < 10 THEN Digits[n + 1]
    ELSE ItoaNat(n \div 10) \o Digits[(n % 10) + 1]

\* strconv.Itoa
Itoa(n) == IF n < 0 THEN "-" \o ItoaNat(0 - n) ELSE ItoaNat(n)

RECURSIVE Join(_)
\* strings.Join(hobbies, "")
Join(ss) == IF ss = << >> THEN "" ELSE Head(ss) \o Join(Tail(ss))

\* Person.Hash of the README: p.Name + strings.Join(p.Hobbies, "")
PersonHash(p) == p.s \o Join(p.hob)

\* strconv.FormatInt(i, 10) and strconv.FormatUint(u, 10)
FormatInt(i) == Itoa(i)

FormatUint(u) == ItoaNat(u)

\* strconv.FormatFloat(f, 'f', 8, bits) of a float of integral value n
FormatFloat(n) == Itoa(n) \o ".00000000"

\* strconv.FormatFloat(f, 'b', 8, bits) of a float of value 0, 1 or 2: the
\* mantissa and the binary exponent
FormatB(n, bits) ==
    IF bits = 32
    THEN (IF n = 0 THEN "0p-149" ELSE IF n = 1 THEN "8388608p-23" ELSE "8388608p-22")
    ELSE (IF n = 0 THEN "0p-1074" ELSE IF n = 1 THEN "4503599627370496p-52"
          ELSE "4503599627370496p-51")

\* strconv.FormatComplex(c, 'b', 8, bitSize) of the complex number n+0i
FormatComplex(n, bitSize) ==
    "(" \o FormatB(n, bitSize \div 2) \o "+" \o FormatB(0, bitSize \div 2) \o "i)"

\* calcHash: the key and whether an error is returned.  The type switch has
\* a case for every kind of NativeTypes but uint8, which takes the default
\* branch.
calcHash(obj) ==
    IF ~isHashableObj(obj) THEN [hash |-> "", err |-> TRUE]
    ELSE IF ~isNativeHashableObj(obj) THEN [hash |-> PersonHash(obj), err |-> FALSE]
    ELSE IF obj.typ = "string" THEN [hash |-> obj.s, err |-> FALSE]
    ELSE IF obj.typ = "int" THEN [hash |-> Itoa(obj.n), err |-> FALSE]
    ELSE IF obj.typ \in {"int8", "int16", "int32", "int64"}
    THEN [hash |-> FormatInt(obj.n), err |-> FALSE]
    ELSE IF obj.typ \in {"uint", "uint16", "uint32", "uint64"}
    THEN [hash |-> FormatUint(obj.n), err |-> FALSE]
    ELSE IF obj.typ = "uintptr" THEN [hash |-> ItoaNat(obj.n), err |-> FALSE]
    ELSE IF obj.typ \in {"float32", "float64"}
    THEN [hash |-> FormatFloat(obj.n), err |-> FALSE]
    ELSE IF obj.typ = "complex64" THEN [hash |-> FormatComplex(obj.n, 64), err |-> FALSE]
    ELSE IF obj.typ = "complex128" THEN [hash |-> FormatComplex(obj.n, 128), err |-> FALSE]
    ELSE [hash |-> "", err |-> TRUE]

\* ------------------------------------------------------------ unsafe_set.go
\* A Set object: variant is its concrete type, dat maps hash keys to values,
\* typ is the fixed element type.
EmptyDat == [k \in {} |-> SliceVal]

newThreadUnsafeSet == [variant |-> "ThreadUnsafeSet", dat |-> EmptyDat, typ |-> NilType]

\* set.dat[hash] = val
MapPut(dat, hash, val) ==
    [k \in (DOMAIN dat) \cup {hash} |-> IF k = hash THEN val ELSE dat[k]]

\* delete(set.dat, hash)
MapDelete(dat, hash) == [k \in (DOMAIN dat) \ {hash} |-> dat[k]]

\* The outcome of a call: the receiver afterwards and whether it panicked.
\* ThreadUnsafeSet.Add: the type is fixed before the hash is computed, so a
\* panic on an unhashable value leaves the type written.
\* fmt.Sprintf("%v", val), up to punctuation
Sprintv(val) == Itoa(val.n) \o val.s \o " " \o Join(val.hob)

\* Add that files the value under its printed form instead of its hash.
Add_KeyedByPrint(set, val) ==
    IF set.typ # NilType /\ set.typ # val.typ
    THEN [set |-> set, panic |-> TRUE]
    ELSE LET typed == IF set.typ = NilType THEN [set EXCEPT !.typ = val.typ] ELSE set
             h == calcHash(val)
         IN  IF h.err THEN [set |-> typed, panic |-> TRUE]
             ELSE [set |-> [typed EXCEPT !.dat = MapPut(typed.dat, Sprintv(val), val)],
                   panic |-> FALSE]

ThreadUnsafeSet_Add(set, val) ==
    IF set.typ # NilType /\ set.typ # val.typ
    THEN [set |-> set, panic |-> TRUE]
    ELSE LET typed == IF set.typ = NilType THEN [set EXCEPT !.typ = val.typ] ELSE set
             h == calcHash(val)
         IN  IF h.err THEN [set |-> typed, panic |-> TRUE]
             ELSE [set |-> [typed EXCEPT !.dat = MapPut(typed.dat, h.hash, val)],
                   panic |-> FALSE]

ThreadUnsafeSet_Size(set) == Cardinality(DOMAIN set.dat)

\* *set = newThreadUnsafeSet()
ThreadUnsafeSet_Clear(set) == newThreadUnsafeSet

\* Contains with one argument (the only form the set algebra uses).
ThreadUnsafeSet_Contains(set, val) ==
    LET h == calcHash(val)
    IN  IF h.err THEN FALSE ELSE h.hash \in DOMAIN set.dat

\* Contains that is satisfied by one of its arguments being in the set.
Contains_AnyOf(set, val) ==
    \E j \in 1..Len(val) :
        ~calcHash(val[j]).err /\ calcHash(val[j]).hash \in DOMAIN set.dat

\* ThreadUnsafeSet.Contains(val ...interface{}): the loop returns false at
\* the first argument whose hash cannot be computed or whose key is not in
\* the mapping, and true when it runs out of arguments.
ThreadUnsafeSet_ContainsAll(set, val) ==
    \A j \in 1..Len(val) :
        ~calcHash(val[j]).err /\ calcHash(val[j]).hash \in DOMAIN set.dat

\* Remove that deletes the entry only when the stored value is val itself.
Remove_ByValue(set, val) ==
    LET h == calcHash(val)
    IN  IF h.err THEN [set |-> set, panic |-> TRUE]
        ELSE IF h.hash \in DOMAIN set.dat /\ set.dat[h.hash] = val
        THEN [set |-> [set EXCEPT !.dat = MapDelete(set.dat, h.hash)], panic |-> FALSE]
        ELSE [set |-> set, panic |-> FALSE]

\* ThreadUnsafeSet.Remove: a panic on an unhashable value, else the delete.
ThreadUnsafeSet_Remove(set, val) ==
    LET h == calcHash(val)
    IN  IF h.err THEN [set |-> set, panic |-> TRUE]
        ELSE [set |-> [set EXCEPT !.dat = MapDelete(set.dat, h.hash)], panic |-> FALSE]

RECURSIVE SetToSeq(_)
\* One order in which a range loop may visit the keys of a map.  The keys of
\* a map are distinct, so the loops below end in the same map in any order.
SetToSeq(S) ==
    IF S = {} THEN << >>
    ELSE LET x == CHOOSE y \in S : TRUE IN <<x>> \o SetToSeq(S \ {x})

\* for _, obj := range set.dat
RangeDat(dat) == LET ks == SetToSeq(DOMAIN dat) IN [i \in 1..Len(ks) |-> dat[ks[i]]]

RECURSIVE AddEach(_, _)
\* acc.Add(obj) for each obj of objs in turn; a panic ends the loop.
AddEach(acc, objs) ==
    IF acc.panic \/ objs = << >> THEN acc
    ELSE AddEach(ThreadUnsafeSet_Add(acc.set, Head(objs)), Tail(objs))

\* other.(*ThreadUnsafeSet) succeeds
IsUnsafe(other) == other.variant = "ThreadUnsafeSet"

Fresh == [set |-> newThreadUnsafeSet, panic |-> FALSE]

Panicked == [set |-> newThreadUnsafeSet, panic |-> TRUE]

\* Clone: the type is copied, then every element is added again.
ThreadUnsafeSet_Clone(set) ==
    AddEach([set |-> [newThreadUnsafeSet EXCEPT !.typ = set.typ], panic |-> FALSE],
            RangeDat(set.dat))

\* Difference with the probe made on the receiver instead of the argument.
Difference_ProbesReceiver(set, other) ==
    IF ~IsUnsafe(other) THEN Panicked
    ELSE AddEach(Fresh,
                 SelectSeq(RangeDat(set.dat),
                           LAMBDA obj : ~ThreadUnsafeSet_Contains(set, obj)))

ThreadUnsafeSet_Difference(set, other) ==
    IF ~IsUnsafe(other) THEN Panicked
    ELSE AddEach(Fresh,
                 SelectSeq(RangeDat(set.dat),
                           LAMBDA obj : ~ThreadUnsafeSet_Contains(other, obj)))

\* Equal as written: the size test returns true when the sizes differ, and
\* it runs before the type assertion.
ThreadUnsafeSet_Equal(set, other) ==
    IF ThreadUnsafeSet_Size(set) # ThreadUnsafeSet_Size(other)
    THEN [ret |-> TRUE, panic |-> FALSE]
    ELSE IF ~IsUnsafe(other) THEN [ret |-> FALSE, panic |-> TRUE]
    ELSE [ret |-> \A k \in DOMAIN set.dat : ThreadUnsafeSet_Contains(other, set.dat[k]),
          panic |-> FALSE]

\* Intersect whose second loop probes the argument it ranges over.
Intersect_ProbesArgument(set, other) ==
    IF ~IsUnsafe(other) THEN Panicked
    ELSE IF ThreadUnsafeSet_Size(set) < ThreadUnsafeSet_Size(other)
         THEN AddEach(Fresh,
                      SelectSeq(RangeDat(set.dat),
                                LAMBDA obj : ThreadUnsafeSet_Contains(other, obj)))
         ELSE AddEach(Fresh,
                      SelectSeq(RangeDat(other.dat),
                                LAMBDA obj : ThreadUnsafeSet_Contains(other, obj)))

\* Intersect ranges over the receiver only when it is strictly smaller.
ThreadUnsafeSet_Intersect(set, other) ==
    IF ~IsUnsafe(other) THEN Panicked
    ELSE IF ThreadUnsafeSet_Size(set) < ThreadUnsafeSet_Size(other)
         THEN AddEach(Fresh,
                      SelectSeq(RangeDat(set.dat),
                                LAMBDA obj : ThreadUnsafeSet_Contains(other, obj)))
         ELSE AddEach(Fresh,
                      SelectSeq(RangeDat(other.dat),
                                LAMBDA obj : ThreadUnsafeSet_Contains(set, obj)))

ThreadUnsafeSet_IsSubset(set, other) ==
    IF ThreadUnsafeSet_Size(set) > ThreadUnsafeSet_Size(other)
    THEN [ret |-> FALSE, panic |-> FALSE]
    ELSE IF ~IsUnsafe(other) THEN [ret |-> FALSE, panic |-> TRUE]
    ELSE [ret |-> \A k \in DOMAIN set.dat : ThreadUnsafeSet_Contains(other, set.dat[k]),
          panic |-> FALSE]

ThreadUnsafeSet_IsProperSubset(set, other) ==
    IF ThreadUnsafeSet_Size(set) < ThreadUnsafeSet_Size(other)
    THEN ThreadUnsafeSet_IsSubset(set, other)
    ELSE [ret |-> FALSE, panic |-> FALSE]

\* SymmetricDifference that builds its result in the receiver's own map
\* and returns the receiver.
SymmetricDifference_InPlace(set, other) ==
    IF ~IsUnsafe(other) THEN Panicked
    ELSE LET out == AddEach(AddEach(Fresh,
                                    SelectSeq(RangeDat(set.dat),
                                              LAMBDA obj : ~ThreadUnsafeSet_Contains(other, obj))),
                            SelectSeq(RangeDat(other.dat),
                                      LAMBDA obj : ~ThreadUnsafeSet_Contains(set, obj)))
         IN  [set |-> [set EXCEPT !.dat = out.set.dat, !.typ = out.set.typ],
              panic |-> out.panic]

ThreadUnsafeSet_SymmetricDifference(set, other) ==
    IF ~IsUnsafe(other) THEN Panicked
    ELSE AddEach(AddEach(Fresh,
                         SelectSeq(RangeDat(set.dat),
                                   LAMBDA obj : ~ThreadUnsafeSet_Contains(other, obj))),
                 SelectSeq(RangeDat(other.dat),
                           LAMBDA obj : ~ThreadUnsafeSet_Contains(set, obj)))

\* Union without its second loop.
Union_ReceiverOnly(set, other) ==
    IF ~IsUnsafe(other) THEN Panicked
    ELSE AddEach(Fresh, RangeDat(set.dat))

ThreadUnsafeSet_Union(set, other) ==
    IF ~IsUnsafe(other) THEN Panicked
    ELSE AddEach(AddEach(Fresh, RangeDat(set.dat)), RangeDat(other.dat))

\* Pop that returns the entry it visits first and leaves it in the mapping.
Pop_KeepsEntry(set, hash) == set

\* Pop of the entry the range loop happens to visit first (key hash).
ThreadUnsafeSet_Pop(set, hash) == [set EXCEPT !.dat = MapDelete(set.dat, hash)]

\* ------------------------------------------------------------ ThreadSafeSet
\* The results of the guarded calls carry, besides the outcome, which
\* operands' shared locks the call acquires (rl) and whether it returns or
\* panics with those locks still held (leak).

\* other.(*ThreadSafeSet) succeeds
IsSafe(other) == other.variant = "ThreadSafeSet"

\* &o.unsafeSet
Core(set) == [set EXCEPT !.variant = "ThreadUnsafeSet"]

\* &ThreadSafeSet{unsafeSet: *unsafeResult}
Wrap(set) == [set EXCEPT !.variant = "ThreadSafeSet"]

NoSet == newThreadUnsafeSet

\* The panic of a failed type assertion, raised before any lock is taken.
AssertPanic == [set |-> NoSet, ret |-> FALSE, panic |-> TRUE, rl |-> {}, leak |-> FALSE]

\* A guarded set-valued operation: RLock both, delegate, wrap, RUnlock both.
\* The unlocks are not deferred, so a panic of the core keeps both locks.
SafeSetResult(out) ==
    [set |-> Wrap(out.set), ret |-> FALSE, panic |-> out.panic,
     rl |-> {"recv", "arg"}, leak |-> out.panic]

\* A guarded predicate: RLock both, delegate, RUnlock both.
SafeBoolResult(out) ==
    [set |-> NoSet, ret |-> out.ret, panic |-> out.panic,
     rl |-> {"recv", "arg"}, leak |-> out.panic]

ThreadSafeSet_Difference(set, other) ==
    IF ~IsSafe(other) THEN AssertPanic
    ELSE SafeSetResult(ThreadUnsafeSet_Difference(Core(set), Core(other)))

ThreadSafeSet_Equal(set, other) ==
    IF ~IsSafe(other) THEN AssertPanic
    ELSE SafeBoolResult(ThreadUnsafeSet_Equal(Core(set), Core(other)))

ThreadSafeSet_Intersect(set, other) ==
    IF ~IsSafe(other) THEN AssertPanic
    ELSE SafeSetResult(ThreadUnsafeSet_Intersect(Core(set), Core(other)))

\* Both unlocks of IsProperSubset are deferred: no lock outlives the call.
ThreadSafeSet_IsProperSubset(set, other) ==
    IF ~IsSafe(other) THEN AssertPanic
    ELSE [SafeBoolResult(ThreadUnsafeSet_IsProperSubset(Core(set), Core(other)))
             EXCEPT !.leak = FALSE]

ThreadSafeSet_IsSubset(set, other) ==
    IF ~IsSafe(other) THEN AssertPanic
    ELSE SafeBoolResult(ThreadUnsafeSet_IsSubset(Core(set), Core(other)))

\* The guarded SymmetricDifference delegates to the core's Difference.
ThreadSafeSet_SymmetricDifference(set, other) ==
    IF ~IsSafe(other) THEN AssertPanic
    ELSE SafeSetResult(ThreadUnsafeSet_Difference(Core(set), Core(other)))

ThreadSafeSet_Union(set, other) ==
    IF ~IsSafe(other) THEN AssertPanic
    ELSE SafeSetResult(ThreadUnsafeSet_Union(Core(set), Core(other)))

\* ------------------------------------------------------- the Set interface
\* A call on an unguarded receiver: other.Size() takes the shared lock of a
\* guarded argument for the length of that call (sized says whether the
\* operation calls it).
UnsafeResult(out, other, sized) ==
    [set |-> IF "set" \in DOMAIN out THEN out.set ELSE NoSet,
     ret |-> IF "ret" \in DOMAIN out THEN out.ret ELSE FALSE,
     panic |-> out.panic,
     rl |-> IF sized /\ IsSafe(other) THEN {"arg"} ELSE {},
     leak |-> FALSE]

Set_Difference(set, other) ==
    IF IsSafe(set) THEN ThreadSafeSet_Difference(set, other)
    ELSE UnsafeResult(ThreadUnsafeSet_Difference(set, other), other, FALSE)

Set_Equal(set, other) ==
    IF IsSafe(set) THEN ThreadSafeSet_Equal(set, other)
    ELSE UnsafeResult(ThreadUnsafeSet_Equal(set, other), other, TRUE)

Set_Intersect(set, other) ==
    IF IsSafe(set) THEN ThreadSafeSet_Intersect(set, other)
    ELSE UnsafeResult(ThreadUnsafeSet_Intersect(set, other), other, FALSE)

Set_IsSubset(set, other) ==
    IF IsSafe(set) THEN ThreadSafeSet_IsSubset(set, other)
    ELSE UnsafeResult(ThreadUnsafeSet_IsSubset(set, other), other, TRUE)

Set_IsProperSubset(set, other) ==
    IF IsSafe(set) THEN ThreadSafeSet_IsProperSubset(set, other)
    ELSE UnsafeResult(ThreadUnsafeSet_IsProperSubset(set, other), other, TRUE)

\* Exchange the roles of receiver and argument in the locks of a result.
Swap(out) ==
    [out EXCEPT !.rl = {IF x = "recv" THEN "arg" ELSE "recv" : x \in out.rl}]

\* IsSuperset of both variants: other.IsSubset(set)
Set_IsSuperset(set, other) == Swap(Set_IsSubset(other, set))

\* ThreadUnsafeSet.IsProperSuperset: set.Size() > other.Size() && set.IsSuperset(other)
ThreadUnsafeSet_IsProperSuperset(set, other) ==
    IF ThreadUnsafeSet_Size(set) > ThreadUnsafeSet_Size(other)
    THEN LET out == Set_IsSuperset(set, other)
         IN  [out EXCEPT !.rl = out.rl \cup (IF IsSafe(other) THEN {"arg"} ELSE {})]
    ELSE UnsafeResult([ret |-> FALSE, panic |-> FALSE], other, TRUE)

\* ThreadSafeSet.IsProperSuperset: other.IsProperSubset(set)
Set_IsProperSuperset(set, other) ==
    IF IsSafe(set) THEN Swap(Set_IsProperSubset(other, set))
    ELSE ThreadUnsafeSet_IsProperSuperset(set, other)

Set_SymmetricDifference(set, other) ==
    IF IsSafe(set) THEN ThreadSafeSet_SymmetricDifference(set, other)
    ELSE UnsafeResult(ThreadUnsafeSet_SymmetricDifference(set, other), other, FALSE)

Set_Union(set, other) ==
    IF IsSafe(set) THEN ThreadSafeSet_Union(set, other)
    ELSE UnsafeResult(ThreadUnsafeSet_Union(set, other), other, FALSE)

\* --------------------------------------------------------------- the state
\* sets : the Set objects a program holds, by name
\* mu   : the RWMutex of each object (used by the guarded variant only):
\*        w - the exclusive lock is held, r - the shared holds of calls in
\*        progress, lost - the shared holds of calls that panicked,
\*        pend - a call of Lock() is waiting for the shared holds to end
\* last : the most recent call, its arguments and its outcome, and what
\*        the receiver was like before it (n0 entries, old under val's key);
\*        args are the arguments of a variadic call, json the JSON text
\*        a call returned or was given
\* pc   : where each thread of SpecConc is in its call
\* loc  : the locals of that call
\* iter : the iterator of the guarded or unguarded set G, its channels and
\*        its producing goroutine
VARIABLES sets, mu, last, pc, loc, iter

vars == <<sets, mu, last, pc, loc, iter>>

SetIds == {"A", "B"}

FreeMutex == [w |-> FALSE, r |-> 0, lost |-> 0, pend |-> FALSE]

NoCall ==
    [op |-> "New", recv |-> "-", arg |-> "-", val |-> NoVal,
     panic |-> FALSE, ret |-> FALSE, set |-> NoSet, n0 |-> 0, old |-> NoVal,
     args |-> << >>, json |-> [valid |-> FALSE, items |-> << >>]]

\* The entry of set under the hash key of val, if there is one.
Stored(set, val) ==
    IF ThreadUnsafeSet_Contains(set, val) THEN set.dat[calcHash(val).hash] ELSE NoVal

\* NewSet() and NewThreadUnsafeSet(): each object is of either variant.
\* (Initial elements are Add calls, made by the Add action.)
NewSet == Wrap(newThreadUnsafeSet)

NewThreadUnsafeSet == newThreadUnsafeSet

Threads == {"t1", "t2"}

NoLocals == [op |-> "-", val |-> NoVal, held |-> "-", todo |-> << >>]

\* No iterator: Iter() or Iterator() has not been called.
NoIter ==
    [kind |-> "-", prod |-> "-", todo |-> {}, snap |-> EmptyDat,
     closed |-> FALSE, stopped |-> FALSE, got |-> << >>, ret |-> {},
     recovered |-> FALSE, escaped |-> FALSE, late |-> FALSE]

Idle ==
    /\ pc = [t \in Threads |-> "idle"]
    /\ loc = [t \in Threads |-> NoLocals]
    /\ iter = NoIter

Init ==
    /\ sets \in [SetIds -> {NewSet, NewThreadUnsafeSet}]
    /\ mu = [i \in SetIds |-> FreeMutex]
    /\ last = NoCall
    /\ Idle

\* set.Lock() that returns while another thread holds the lock.
Lock_NoWait(m) == TRUE

\* set.Lock() can return
CanLock(m) == ~m.w /\ ~m.pend /\ m.r = 0 /\ m.lost = 0

\* RLock() that waits for the other shared holds to end as well.
RLock_Exclusive(m) == ~m.w /\ ~m.pend /\ m.r = 0 /\ m.lost = 0

\* set.RLock() can return: no call of Lock() holds the lock or waits for it
\* (a waiting Lock() keeps new shared holds out).
CanRLock(m) == ~m.w /\ ~m.pend

\* A shared hold that is never released.
LeakR(m) == [m EXCEPT !.lost = IF m.lost < MaxLeak THEN m.lost + 1 ELSE m.lost]

\* ThreadSafeSet.Add: Lock, the core's Add, Unlock; a panic of the core
\* skips the Unlock.
ThreadSafeSet_Add(set, m, val) ==
    LET out == ThreadUnsafeSet_Add(set, val)
    IN  [set |-> out.set, panic |-> out.panic, mu |-> [m EXCEPT !.w = out.panic]]

Add(id, val) ==
    /\ IsSafe(sets[id]) => CanLock(mu[id])
    /\ LET out == IF IsSafe(sets[id]) THEN ThreadSafeSet_Add(sets[id], mu[id], val)
                  ELSE ThreadUnsafeSet_Add(sets[id], val)
       IN  /\ sets' = [sets EXCEPT ![id] = out.set]
           /\ mu' = [mu EXCEPT ![id] = IF IsSafe(sets[id]) THEN out.mu ELSE @]
           /\ last' = [NoCall EXCEPT !.op = "Add", !.recv = id, !.val = val,
                                     !.panic = out.panic, !.ret = ~out.panic,
                                     !.n0 = ThreadUnsafeSet_Size(sets[id]),
                                     !.old = Stored(sets[id], val)]
    /\ UNCHANGED <<pc, loc, iter>>

\* Remove of both variants: the guarded one computes the hash (and panics)
\* before it takes the exclusive lock.
Remove(id, val) ==
    /\ (IsSafe(sets[id]) /\ ~calcHash(val).err) => CanLock(mu[id])
    /\ LET out == ThreadUnsafeSet_Remove(sets[id], val)
       IN  /\ sets' = [sets EXCEPT ![id] = out.set]
           /\ last' = [NoCall EXCEPT !.op = "Remove", !.recv = id, !.val = val,
                                     !.panic = out.panic,
                                     !.n0 = ThreadUnsafeSet_Size(sets[id]),
                                     !.old = Stored(sets[id], val)]
    /\ UNCHANGED <<mu, pc, loc, iter>>

\* Clear of both variants: the core is replaced by a new one.
Clear(id) ==
    /\ IsSafe(sets[id]) => CanLock(mu[id])
    /\ sets' = [sets EXCEPT ![id] = [ThreadUnsafeSet_Clear(@) EXCEPT !.variant = sets[id].variant]]
    /\ last' = [NoCall EXCEPT !.op = "Clear", !.recv = id,
                              !.n0 = ThreadUnsafeSet_Size(sets[id])]
    /\ UNCHANGED <<mu, pc, loc, iter>>

\* Pop of both variants: the first entry the range loop visits is deleted
\* and returned; (nil, false) on an empty set.
Pop(id) ==
    /\ IsSafe(sets[id]) => CanLock(mu[id])
    /\ \/ \E hash \in DOMAIN sets[id].dat :
            /\ sets' = [sets EXCEPT ![id] = ThreadUnsafeSet_Pop(@, hash)]
            /\ last' = [NoCall EXCEPT !.op = "Pop", !.recv = id,
                                      !.val = sets[id].dat[hash], !.ret = TRUE,
                                      !.n0 = ThreadUnsafeSet_Size(sets[id])]
       \/ /\ DOMAIN sets[id].dat = {}
          /\ sets' = sets
          /\ last' = [NoCall EXCEPT !.op = "Pop", !.recv = id]
    /\ UNCHANGED <<mu, pc, loc, iter>>

\* Clone of both variants; the guarded one holds the shared lock meanwhile.
Clone(id) ==
    /\ IsSafe(sets[id]) => CanRLock(mu[id])
    /\ LET out == ThreadUnsafeSet_Clone(Core(sets[id]))
       IN  last' = [NoCall EXCEPT !.op = "Clone", !.recv = id, !.panic = out.panic,
                                  !.set = [out.set EXCEPT !.variant = sets[id].variant]]
    /\ UNCHANGED <<sets, mu, pc, loc, iter>>

\* A call of a binary operation op on receiver a with argument b, out being
\* its outcome: it needs the shared locks it acquires, it changes neither
\* operand, and a guarded call that panics inside the core keeps both locks.
Binary(op, a, b, out) ==
    /\ ("recv" \in out.rl) => CanRLock(mu[a])
    /\ ("arg" \in out.rl) => CanRLock(mu[b])
    /\ mu' = IF out.leak
             THEN [i \in SetIds |->
                     IF i = a /\ i = b THEN LeakR(LeakR(mu[i]))
                     ELSE IF i = a \/ i = b THEN LeakR(mu[i]) ELSE mu[i]]
             ELSE mu
    /\ last' = [NoCall EXCEPT !.op = op, !.recv = a, !.arg = b,
                              !.panic = out.panic, !.ret = out.ret, !.set = out.set]
    /\ UNCHANGED <<sets, pc, loc, iter>>

Difference(a, b) == Binary("Difference", a, b, Set_Difference(sets[a], sets[b]))

Equal(a, b) == Binary("Equal", a, b, Set_Equal(sets[a], sets[b]))

Intersect(a, b) == Binary("Intersect", a, b, Set_Intersect(sets[a], sets[b]))

IsProperSubset(a, b) == Binary("IsProperSubset", a, b, Set_IsProperSubset(sets[a], sets[b]))

IsProperSuperset(a, b) == Binary("IsProperSuperset", a, b, Set_IsProperSuperset(sets[a], sets[b]))

IsSubset(a, b) == Binary("IsSubset", a, b, Set_IsSubset(sets[a], sets[b]))

IsSuperset(a, b) == Binary("IsSuperset", a, b, Set_IsSuperset(sets[a], sets[b]))

SymmetricDifference(a, b) ==
    Binary("SymmetricDifference", a, b, Set_SymmetricDifference(sets[a], sets[b]))

Union(a, b) == Binary("Union", a, b, Set_Union(sets[a], sets[b]))

Next ==
    \/ \E id \in SetIds, val \in Vals : Add(id, val)
    \/ \E id \in SetIds, val \in Vals : Remove(id, val)
    \/ \E id \in SetIds : Clear(id)
    \/ \E id \in SetIds : Pop(id)
    \/ \E id \in SetIds : Clone(id)
    \/ \E a, b \in SetIds : Difference(a, b)
    \/ \E a, b \in SetIds : Equal(a, b)
    \/ \E a, b \in SetIds : Intersect(a, b)
    \/ \E a, b \in SetIds : IsProperSubset(a, b)
    \/ \E a, b \in SetIds : IsProperSuperset(a, b)
    \/ \E a, b \in SetIds : IsSubset(a, b)
    \/ \E a, b \in SetIds : IsSuperset(a, b)
    \/ \E a, b \in SetIds : SymmetricDifference(a, b)
    \/ \E a, b \in SetIds : Union(a, b)

Spec == Init /\ [][Next]_vars

\* ---------------------------------------------------- one call of the algebra
\* The set objects a program can build from the values vs: no fixed type and
\* no entry, or a fixed type and entries of that type, one per hash key
\* (a fixed type without entries is what Remove and Pop leave behind).
SetsOver(vs) ==
    {newThreadUnsafeSet} \cup
    UNION {
      LET vt == {v \in vs : v.typ = t /\ ~calcHash(v).err}
          keys == {calcHash(v).hash : v \in vt}
      IN  UNION {
            {[variant |-> "ThreadUnsafeSet", dat |-> f, typ |-> t] :
               f \in {g \in [K -> vt] : \A k \in K : calcHash(g[k]).hash = k}}
            : K \in SUBSET keys}
      : t \in {v.typ : v \in vs}}

\* Two operands of either variant, then one call of one binary operation.
InitAlgebra ==
    /\ sets \in [SetIds -> SetsOver(AlgVals) \cup {Wrap(x) : x \in SetsOver(AlgVals)}]
    /\ mu = [i \in SetIds |-> FreeMutex]
    /\ last = NoCall
    /\ Idle

NextAlgebra ==
    \/ \E a, b \in SetIds : last = NoCall /\ Difference(a, b)
    \/ \E a, b \in SetIds : last = NoCall /\ Equal(a, b)
    \/ \E a, b \in SetIds : last = NoCall /\ Intersect(a, b)
    \/ \E a, b \in SetIds : last = NoCall /\ IsProperSubset(a, b)
    \/ \E a, b \in SetIds : last = NoCall /\ IsProperSuperset(a, b)
    \/ \E a, b \in SetIds : last = NoCall /\ IsSubset(a, b)
    \/ \E a, b \in SetIds : last = NoCall /\ IsSuperset(a, b)
    \/ \E a, b \in SetIds : last = NoCall /\ SymmetricDifference(a, b)
    \/ \E a, b \in SetIds : last = NoCall /\ Union(a, b)

SpecAlgebra == InitAlgebra /\ [][NextAlgebra]_vars

\* ------------------------------------------------------ the set algebra claims
\* The receiver and the argument of the last call, and their hash keys.
Recv == sets[last.recv]

Arg == sets[last.arg]

Keys(set) == DOMAIN set.dat

Elems(set) == {set.dat[k] : k \in DOMAIN set.dat}

\* The last call was a binary operation op on two sets of the same variant.
Called(op) == last.op = op /\ Recv.variant = Arg.variant

\* No element of the receiver differs in type from an element of the argument.
SameElemType == \A x \in Elems(Recv), y \in Elems(Arg) : x.typ = y.typ

Max(m, n) == IF m > n THEN m ELSE n

\* C1: Equal(A,B) on two sets of the same variant returns true exactly when
\* A and B have the same number of entries and every hash key of A is a key
\* of B.
C1_EqualIffSameKeys ==
    Called("Equal") =>
        /\ ~last.panic
        /\ last.ret <=> /\ Cardinality(Keys(Recv)) = Cardinality(Keys(Arg))
                        /\ Keys(Recv) \subseteq Keys(Arg)

\* C2: whenever SymmetricDifference of two sets of the same variant returns,
\* the keys of its result are those in exactly one operand, which are the
\* keys of Difference(A,B) and of Difference(B,A) together.
C2_SymmetricDifferenceKeys ==
    (Called("SymmetricDifference") /\ ~last.panic) =>
        /\ Keys(last.set) = (Keys(Recv) \ Keys(Arg)) \cup (Keys(Arg) \ Keys(Recv))
        /\ Keys(last.set) = Keys(Set_Difference(Recv, Arg).set)
                                \cup Keys(Set_Difference(Arg, Recv).set)

\* C4: Union of two sets of the same variant whose elements are of one type
\* returns a set holding exactly the keys of both operands, with at least
\* max(|A|,|B|) and at most |A|+|B| entries.
C4_UnionKeysAndSize ==
    (Called("Union") /\ SameElemType) =>
        /\ ~last.panic
        /\ Keys(last.set) = Keys(Recv) \cup Keys(Arg)
        /\ Cardinality(Keys(last.set)) >= Max(Cardinality(Keys(Recv)), Cardinality(Keys(Arg)))
        /\ Cardinality(Keys(last.set)) <= Cardinality(Keys(Recv)) + Cardinality(Keys(Arg))

\* A Union of two non-empty sets that share a key and each have a key of
\* their own has returned.
C4_Witness ==
    /\ Called("Union") /\ ~last.panic
    /\ Keys(Recv) \cap Keys(Arg) # {}
    /\ Keys(Recv) \ Keys(Arg) # {}
    /\ Keys(Arg) \ Keys(Recv) # {}
    /\ Cardinality(Keys(last.set)) > Max(Cardinality(Keys(Recv)), Cardinality(Keys(Arg)))
    /\ Cardinality(Keys(last.set)) < Cardinality(Keys(Recv)) + Cardinality(Keys(Arg))

\* C5: a key is in Intersect(A,B) of two sets of the same variant exactly
\* when it is a key of both; the entries come from the receiver when it is
\* the strictly smaller operand and from the argument otherwise.
C5_IntersectKeys ==
    Called("Intersect") =>
        /\ ~last.panic
        /\ Keys(last.set) = Keys(Recv) \cap Keys(Arg)
        /\ \A k \in Keys(last.set) :
              last.set.dat[k] = IF Cardinality(Keys(Recv)) < Cardinality(Keys(Arg))
                                THEN Recv.dat[k] ELSE Arg.dat[k]

\* An Intersect of a larger receiver with a smaller argument has returned a
\* non-empty set that is neither operand.
C5_Witness ==
    /\ Called("Intersect") /\ ~last.panic
    /\ Cardinality(Keys(Recv)) > Cardinality(Keys(Arg))
    /\ Keys(last.set) # {}
    /\ Keys(last.set) # Keys(Arg)
    /\ \E k \in Keys(last.set) : Recv.dat[k] # Arg.dat[k]

\* C6: Difference(A,B) of two sets of the same variant holds exactly the
\* keys of A that B lacks; with the keys of Intersect(A,B) they make up the
\* keys of A, and none of them is a key of B.
C6_DifferenceKeys ==
    Called("Difference") =>
        /\ ~last.panic
        /\ Keys(last.set) = Keys(Recv) \ Keys(Arg)
        /\ ~Set_Intersect(Recv, Arg).panic
        /\ Keys(last.set) \cup Keys(Set_Intersect(Recv, Arg).set) = Keys(Recv)
        /\ Keys(last.set) \cap Keys(Arg) = {}

\* A Difference has returned some but not all keys of its receiver, the
\* argument having a key of its own too.
C6_Witness ==
    /\ Called("Difference") /\ ~last.panic
    /\ Keys(last.set) # {}
    /\ Keys(last.set) # Keys(Recv)
    /\ Keys(Arg) \ Keys(Recv) # {}

BinaryOps ==
    {"Union", "Intersect", "Difference", "SymmetricDifference", "Equal",
     "IsSubset", "IsSuperset", "IsProperSubset", "IsProperSuperset"}

\* C10: every binary operation on two non-empty sets of the same variant
\* whose fixed element types differ panics.
C10_TypeMismatchPanics ==
    (/\ last.op \in BinaryOps
     /\ Recv.variant = Arg.variant
     /\ Keys(Recv) # {} /\ Keys(Arg) # {}
     /\ Recv.typ # Arg.typ) => last.panic

\* C11: every binary operation called with an argument of the other variant
\* than its receiver panics, whatever the two sets hold and however many
\* entries they have.
C11_VariantMismatchPanics ==
    (last.op \in BinaryOps /\ Recv.variant # Arg.variant) => last.panic

\* ------------------------------------------------------ the claims about Add
\* C7: no set holds two entries with one hash key, and an Add of a value
\* whose hash key is present leaves the number of entries as it was and,
\* when it returns, has put the new value in the place of the old one.
C7_OneEntryPerKey ==
    /\ \A id \in SetIds : \A x, y \in Elems(sets[id]) :
          calcHash(x).hash = calcHash(y).hash => x = y
    /\ (last.op = "Add" /\ last.old # NoVal) =>
          /\ ThreadUnsafeSet_Size(Recv) = last.n0
          /\ ~last.panic => Stored(Recv, last.val) = last.val

\* A Person was added to a set that held a different Person with the same
\* Hash() string.
C7_Witness ==
    /\ last.op = "Add" /\ ~last.panic
    /\ last.val \in Persons /\ last.old \in Persons /\ last.old # last.val
    /\ calcHash(last.old).hash = calcHash(last.val).hash

\* C8: an Add of a hashable value to a set without entries does not panic;
\* it fixes the set's type to the value's and stores the value.
C8_AddToEmptyNeverConflicts ==
    (last.op = "Add" /\ last.n0 = 0 /\ ~calcHash(last.val).err) =>
        /\ ~last.panic
        /\ Recv.typ = last.val.typ
        /\ Stored(Recv, last.val) = last.val

\* -------------------------------------------- threads on one guarded set
\* The guarded set the threads share.
G == "A"

\* The values the threads add and remove.
ConcVals == {IntVal(1), StrVal("a"), SliceVal}

\* A JSON text: whether it parses, and the elements of its array.
JStr(text) == [kind |-> "string", text |-> text]

JNum(text) == [kind |-> "number", text |-> text]

JObj(text) == [kind |-> "object", text |-> text]

JsonDocs ==
    {[valid |-> TRUE, items |-> <<JStr("a")>>],
     [valid |-> TRUE, items |-> <<JNum("1")>>],
     [valid |-> TRUE, items |-> <<JStr("a"), JStr("1")>>],
     [valid |-> FALSE, items |-> << >>]}

\* A number decoded with UseNumber: a json.Number, which is a string type of
\* its own and so neither a native kind of calcHash nor Hashable.
JsonNumberVal(text) == [typ |-> "json.Number", n |-> 0, s |-> text, hob |-> << >>]

\* A decoded JSON object: a map[string]interface{}, which is unhashable.
JsonObjectVal == [typ |-> "map[string]interface {}", n |-> 0, s |-> "", hob |-> << >>]

\* d.Decode(&i) into []interface{}
Decode(b) ==
    IF ~b.valid THEN [err |-> TRUE, vals |-> << >>]
    ELSE [err |-> FALSE,
          vals |-> [j \in 1..Len(b.items) |->
                      IF b.items[j].kind = "number" THEN JsonNumberVal(b.items[j].text)
                      ELSE IF b.items[j].kind = "object" THEN JsonObjectVal
                      ELSE StrVal(b.items[j].text)]]

InitConc ==
    /\ sets = [i \in SetIds |-> NewSet]
    /\ mu = [i \in SetIds |-> FreeMutex]
    /\ last = NoCall
    /\ Idle

\* Thread t enters a call holding lock kind held ("W" or "R").
Enter(t, op, val, held, todo, at) ==
    /\ pc[t] = "idle"
    /\ IF held = "W" THEN CanLock(mu[G]) ELSE CanRLock(mu[G])
    /\ mu' = [mu EXCEPT ![G] = IF held = "W" THEN [@ EXCEPT !.w = TRUE]
                                ELSE [@ EXCEPT !.r = @ + 1]]
    /\ loc' = [loc EXCEPT ![t] = [op |-> op, val |-> val, held |-> held, todo |-> todo]]
    /\ pc' = [pc EXCEPT ![t] = at]

\* A panic unwinds thread t's call.  No unlock of these calls is deferred
\* except Pop's, so the lock the call holds stays held.
Panic(t) ==
    /\ pc' = [pc EXCEPT ![t] = "idle"]
    /\ loc' = [loc EXCEPT ![t] = NoLocals]
    /\ mu' = [mu EXCEPT ![G] = IF loc[t].held = "R"
                                THEN LeakR([@ EXCEPT !.r = @ - 1]) ELSE @]

\* ThreadSafeSet.Add: set.Lock()
LockAdd(t, val) ==
    /\ Enter(t, "Add", val, "W", << >>, "AddCheck")
    /\ UNCHANGED <<sets, last, iter>>

\* ThreadUnsafeSet.Add, the type test (it reads set.typ).
AddCheck(t) ==
    /\ pc[t] = "AddCheck"
    /\ IF sets[G].typ # NilType /\ sets[G].typ # loc[t].val.typ
       THEN Panic(t)
       ELSE /\ pc' = [pc EXCEPT ![t] = "AddFix"]
            /\ UNCHANGED <<mu, loc>>
    /\ UNCHANGED <<sets, last, iter>>

\* ThreadUnsafeSet.Add, fixing the type (it reads set.typ again and may
\* write it), then the hash computation, which may panic.
AddFix(t) ==
    /\ pc[t] = "AddFix"
    /\ sets' = [sets EXCEPT ![G].typ = IF @ = NilType THEN loc[t].val.typ ELSE @]
    /\ IF calcHash(loc[t].val).err
       THEN Panic(t)
       ELSE /\ pc' = [pc EXCEPT ![t] = "AddPut"]
            /\ UNCHANGED <<mu, loc>>
    /\ UNCHANGED <<last, iter>>

\* ThreadUnsafeSet.Add, set.dat[hash] = val, and the return to the caller:
\* ThreadSafeSet.Add goes on to unlock, UnmarshalJSON to its next element.
AddPut(t) ==
    /\ pc[t] = "AddPut"
    /\ sets' = [sets EXCEPT ![G].dat = MapPut(@, calcHash(loc[t].val).hash, loc[t].val)]
    /\ IF loc[t].op = "UnmarshalJSON" /\ loc[t].todo # << >>
       THEN /\ loc' = [loc EXCEPT ![t].val = Head(loc[t].todo), ![t].todo = Tail(loc[t].todo)]
            /\ pc' = [pc EXCEPT ![t] = "AddCheck"]
       ELSE /\ pc' = [pc EXCEPT ![t] = "Unlock"]
            /\ loc' = loc
    /\ UNCHANGED <<mu, last, iter>>

\* ThreadSafeSet.Remove: the hash is computed first (a panic there happens
\* before anything is locked or changed), then set.Lock().
LockRemove(t, val) ==
    /\ ~calcHash(val).err
    /\ Enter(t, "Remove", val, "W", << >>, "RemoveDelete")
    /\ UNCHANGED <<sets, last, iter>>

\* delete(set.unsafeSet.dat, hash)
RemoveDelete(t) ==
    /\ pc[t] = "RemoveDelete"
    /\ sets' = [sets EXCEPT ![G].dat = MapDelete(@, calcHash(loc[t].val).hash)]
    /\ pc' = [pc EXCEPT ![t] = "Unlock"]
    /\ UNCHANGED <<mu, last, loc, iter>>

\* ThreadSafeSet.Clear: set.Lock()
LockClear(t) ==
    /\ Enter(t, "Clear", NoVal, "W", << >>, "ClearReset")
    /\ UNCHANGED <<sets, last, iter>>

\* set.unsafeSet = newThreadUnsafeSet()
ClearReset(t) ==
    /\ pc[t] = "ClearReset"
    /\ sets' = [sets EXCEPT ![G] = Wrap(newThreadUnsafeSet)]
    /\ pc' = [pc EXCEPT ![t] = "Unlock"]
    /\ UNCHANGED <<mu, last, loc, iter>>

\* ThreadSafeSet.Pop: set.Lock()
LockPop(t) ==
    /\ Enter(t, "Pop", NoVal, "W", << >>, "PopDelete")
    /\ UNCHANGED <<sets, last, iter>>

\* ThreadUnsafeSet.Pop: delete the first entry visited, if there is one.
PopDelete(t) ==
    /\ pc[t] = "PopDelete"
    /\ \/ \E hash \in DOMAIN sets[G].dat :
            /\ sets' = [sets EXCEPT ![G] = ThreadUnsafeSet_Pop(@, hash)]
            /\ loc' = [loc EXCEPT ![t].val = sets[G].dat[hash]]
       \/ /\ DOMAIN sets[G].dat = {}
          /\ UNCHANGED <<sets, loc>>
    /\ pc' = [pc EXCEPT ![t] = "Unlock"]
    /\ UNCHANGED <<mu, last, iter>>

\* ThreadSafeSet.Contains: set.RLock(); the lookup is made at the unlock.
RLockContains(t, val) ==
    /\ Enter(t, "Contains", val, "R", << >>, "Unlock")
    /\ UNCHANGED <<sets, last, iter>>

\* ThreadSafeSet.UnmarshalJSON: set.RLock(), then the core's UnmarshalJSON
\* decodes and calls Add for each element.
RLockUnmarshalJSON(t, b) ==
    /\ LET d == Decode(b)
       IN  IF d.err \/ d.vals = << >>
           THEN Enter(t, "UnmarshalJSON", NoVal, "R", << >>, "Unlock")
           ELSE Enter(t, "UnmarshalJSON", Head(d.vals), "R", Tail(d.vals), "AddCheck")
    /\ UNCHANGED <<sets, last, iter>>

\* set.Unlock() or set.RUnlock(), and the return.
Unlock(t) ==
    /\ pc[t] = "Unlock"
    /\ mu' = [mu EXCEPT ![G] = IF loc[t].held = "W" THEN [@ EXCEPT !.w = FALSE]
                                ELSE [@ EXCEPT !.r = @ - 1]]
    /\ pc' = [pc EXCEPT ![t] = "idle"]
    /\ loc' = [loc EXCEPT ![t] = NoLocals]
    /\ UNCHANGED <<sets, last, iter>>

NextConc ==
    \/ \E t \in Threads, val \in ConcVals : LockAdd(t, val)
    \/ \E t \in Threads : AddCheck(t)
    \/ \E t \in Threads : AddFix(t)
    \/ \E t \in Threads : AddPut(t)
    \/ \E t \in Threads, val \in ConcVals : LockRemove(t, val)
    \/ \E t \in Threads : RemoveDelete(t)
    \/ \E t \in Threads : LockClear(t)
    \/ \E t \in Threads : ClearReset(t)
    \/ \E t \in Threads : LockPop(t)
    \/ \E t \in Threads : PopDelete(t)
    \/ \E t \in Threads, val \in ConcVals : RLockContains(t, val)
    \/ \E t \in Threads, b \in JsonDocs : RLockUnmarshalJSON(t, b)
    \/ \E t \in Threads : Unlock(t)

SpecConc == InitConc /\ [][NextConc]_vars

\* Thread t is about to write the mapping or the fixed type of the set.
Modifying(t) ==
    \/ pc[t] \in {"AddPut", "RemoveDelete", "ClearReset", "PopDelete"}
    \/ pc[t] = "AddFix" /\ sets[G].typ = NilType

\* C3: a thread modifies the mapping or the fixed type of a guarded set only
\* while it holds the exclusive lock, so never while another thread holds
\* the shared lock or modifies the set too.
C3_WritesHoldExclusiveLock ==
    \A t \in Threads : Modifying(t) =>
        /\ loc[t].held = "W"
        /\ \A u \in Threads \ {t} : loc[u].held # "R" /\ ~Modifying(u)

\* C9: the elements stored in a set are all of the set's fixed type, and an
\* Add of a value of another type than the fixed one panics and stores
\* nothing.
C9_ElementsHaveFixedType ==
    /\ \A id \in SetIds : \A x \in Elems(sets[id]) : x.typ = sets[id].typ
    /\ \A x \in Elems(last.set) : x.typ = last.set.typ
    /\ (last.op = "Add" /\ last.panic) => ThreadUnsafeSet_Size(Recv) = last.n0

\* ---------------------------------------------------- the claims about Remove
\* C15: a Remove(e) of a value that has a hash key returns without a panic
\* and deletes exactly the entry under that key: afterwards Contains(e) is
\* false, every other entry is there with its value, no entry is new, the
\* number of entries is one less if the key was present and the same if it
\* was absent, and no other set has changed.
C15_RemoveStep ==
    (last'.op = "Remove" /\ ~calcHash(last'.val).err) =>
        LET id == last'.recv
            k == calcHash(last'.val).hash
        IN  /\ ~last'.panic
            /\ ~ThreadUnsafeSet_Contains(sets'[id], last'.val)
            /\ \A h \in Keys(sets[id]) \ {k} :
                  h \in Keys(sets'[id]) /\ sets'[id].dat[h] = sets[id].dat[h]
            /\ Keys(sets'[id]) \subseteq Keys(sets[id])
            /\ ThreadUnsafeSet_Size(sets'[id]) =
                  IF k \in Keys(sets[id]) THEN ThreadUnsafeSet_Size(sets[id]) - 1
                  ELSE ThreadUnsafeSet_Size(sets[id])
            /\ \A o \in SetIds \ {id} : sets'[o] = sets[o]

C15_RemoveDeletesOneEntry == [][C15_RemoveStep]_vars

\* A Remove has deleted the one entry under its argument's hash key, the
\* entry being a Person other than the one the call was given.
C15_Witness ==
    /\ last.op = "Remove" /\ ~last.panic
    /\ last.old \in Persons /\ last.old # last.val
    /\ ThreadUnsafeSet_Size(Recv) = last.n0 - 1
    /\ ~ThreadUnsafeSet_Contains(Recv, last.val)

\* -------------------------------------------------- one call of Contains
\* The argument lists of a variadic call.
ArgLists(vs) == UNION {[1..n -> vs] : n \in 0..MaxArgs}

\* Contains of both variants; the guarded one holds the shared lock
\* meanwhile and releases it before it returns.
Contains(id, val) ==
    /\ IsSafe(sets[id]) => CanRLock(mu[id])
    /\ last' = [NoCall EXCEPT !.op = "Contains", !.recv = id, !.args = val,
                              !.ret = ThreadUnsafeSet_ContainsAll(Core(sets[id]), val),
                              !.n0 = ThreadUnsafeSet_Size(sets[id])]
    /\ UNCHANGED <<sets, mu, pc, loc, iter>>

\* A set of either variant built from AlgVals, then one call of Contains.
InitContains ==
    /\ sets \in [SetIds -> SetsOver(AlgVals) \cup {Wrap(x) : x \in SetsOver(AlgVals)}]
    /\ sets["B"] = NewThreadUnsafeSet
    /\ mu = [i \in SetIds |-> FreeMutex]
    /\ last = NoCall
    /\ Idle

NextContains == \E val \in ArgLists(AlgVals) : last = NoCall /\ Contains("A", val)

SpecContains == InitContains /\ [][NextContains]_vars

\* C16: Contains(e1..en) returns true exactly when every ei has a hash key
\* and that key is in the set (so true for no arguments, and false, without
\* a panic, when an argument is unhashable), and it leaves the set as it
\* was.
C16_ContainsStep ==
    last'.op = "Contains" =>
        /\ sets' = sets
        /\ mu' = mu
        /\ ~last'.panic
        /\ last'.ret <=>
              \A j \in 1..Len(last'.args) :
                  /\ isHashableObj(last'.args[j])
                  /\ \E k \in Keys(sets[last'.recv]) : k = calcHash(last'.args[j]).hash
        /\ (last'.args = << >>) => last'.ret
        /\ (\E j \in 1..Len(last'.args) : ~isHashableObj(last'.args[j])) => ~last'.ret

C16_ContainsAllKeys == [][C16_ContainsStep]_vars

\* Contains was given two different values that are both in the set and
\* has returned true.
C16_Witness ==
    /\ last.op = "Contains" /\ last.ret
    /\ Len(last.args) = 2 /\ last.args[1] # last.args[2]
    /\ calcHash(last.args[1]).hash # calcHash(last.args[2]).hash

\* ------------------------------------------------------- the claim about Pop
\* C17: the step of a guarded Pop that runs the core's Pop is made under the
\* exclusive lock with no other thread inside a call; on a set with entries
\* it returns one of them and deletes exactly that entry in the same step,
\* so no second Pop can return it; on a set without entries it returns
\* (nil, false) and changes nothing.
C17_PopStep ==
    \A t \in Threads : (pc[t] = "PopDelete" /\ pc'[t] = "Unlock") =>
        /\ loc[t].held = "W" /\ mu[G].w
        /\ \A u \in Threads \ {t} : pc[u] = "idle"
        /\ IF Keys(sets[G]) = {}
           THEN sets' = sets /\ loc'[t].val = NoVal
           ELSE \E k \in Keys(sets[G]) :
                   /\ loc'[t].val = sets[G].dat[k]
                   /\ loc'[t].val # NoVal
                   /\ Keys(sets'[G]) = Keys(sets[G]) \ {k}
                   /\ \A h \in Keys(sets'[G]) : sets'[G].dat[h] = sets[G].dat[h]
                   /\ sets'[G].typ = sets[G].typ

C17_PopRemovesWhatItReturns == [][C17_PopStep]_vars

\* A Pop is about to return an entry of a set that keeps another entry.
C17_Witness ==
    \E t \in Threads :
        /\ pc[t] = "Unlock" /\ loc[t].op = "Pop" /\ loc[t].val # NoVal
        /\ Keys(sets[G]) # {}
        /\ calcHash(loc[t].val).hash \notin Keys(sets[G])

\* --------------------------------------------------- one Add of any value
\* Values of every kind of NativeTypes, of a Hashable type, and of types
\* that are neither (a slice, a bool, a json.Number, nil).
HashVals ==
    {NumVal(t, n) : t \in {"int", "int8", "int16", "int32", "int64", "float32", "float64"},
                    n \in -1..MaxInt}
    \cup {NumVal(t, n) : t \in {"uint", "uint8", "uint16", "uint32", "uint64", "uintptr"},
                         n \in 0..MaxInt}
    \cup {NumVal(t, n) : t \in {"complex64", "complex128"}, n \in 0..1}
    \cup {StrVal(""), StrVal("a"), StrVal("1")}
    \cup Persons
    \cup {SliceVal, BoolVal, JsonNumberVal("1"), NoVal}

\* A new set of either variant, then one Add.
InitHash ==
    /\ sets \in [SetIds -> {NewSet, NewThreadUnsafeSet}]
    /\ sets["B"] = NewThreadUnsafeSet
    /\ mu = [i \in SetIds |-> FreeMutex]
    /\ last = NoCall
    /\ Idle

NextHash == \E val \in HashVals : last = NoCall /\ Add("A", val)

SpecHash == InitHash /\ [][NextHash]_vars

\* C18: the hash of a value of every kind isHashableObj lists and of every
\* Hashable is computed without an error, so its Add to an empty set
\* stores it; the Add of a value that is neither panics.
C18_ListedKindsHash ==
    last.op = "Add" =>
        IF last.val.typ \in NativeTypes \cup HashableTypes
        THEN /\ ~calcHash(last.val).err
             /\ ~last.panic
             /\ Stored(Recv, last.val) = last.val
        ELSE last.panic /\ Keys(Recv) = {}

\* ------------------------------------------------- MarshalJSON, UnmarshalJSON
\* json.Marshal(obj) of an element: a number in decimal digits, a string
\* between quotes, a Person as an object.
JsonMarshal(obj) ==
    IF obj.typ = "string" THEN JStr(obj.s)
    ELSE IF obj.typ \in HashableTypes THEN JObj(obj.s \o Join(obj.hob))
    ELSE JNum(Itoa(obj.n))

\* ThreadUnsafeSet.MarshalJSON: the elements in the order the range loop
\* visits them, joined into an array.
ThreadUnsafeSet_MarshalJSON(set) ==
    LET objs == RangeDat(set.dat)
    IN  [valid |-> TRUE, items |-> [j \in 1..Len(objs) |-> JsonMarshal(objs[j])]]

\* ThreadUnsafeSet.UnmarshalJSON: a decoding error is returned, else every
\* decoded value is added in turn.
ThreadUnsafeSet_UnmarshalJSON(set, b) ==
    LET d == Decode(b)
    IN  IF d.err THEN [set |-> set, panic |-> FALSE, err |-> TRUE]
        ELSE LET out == AddEach([set |-> set, panic |-> FALSE], d.vals)
             IN  [set |-> out.set, panic |-> out.panic, err |-> FALSE]

\* MarshalJSON of both variants; the guarded one holds the shared lock
\* meanwhile.
MarshalJSON(id) ==
    /\ IsSafe(sets[id]) => CanRLock(mu[id])
    /\ last' = [NoCall EXCEPT !.op = "MarshalJSON", !.recv = id, !.ret = TRUE,
                              !.json = ThreadUnsafeSet_MarshalJSON(Core(sets[id]))]
    /\ UNCHANGED <<sets, mu, pc, loc, iter>>

\* UnmarshalJSON of both variants on the text b, which MarshalJSON of the
\* set from returned.  The guarded one holds the shared lock meanwhile and
\* keeps it when an Add panics.
UnmarshalJSON(id, b, from) ==
    /\ IsSafe(sets[id]) => CanRLock(mu[id])
    /\ LET out == ThreadUnsafeSet_UnmarshalJSON(Core(sets[id]), b)
       IN  /\ sets' = [sets EXCEPT ![id] = [out.set EXCEPT !.variant = sets[id].variant]]
           /\ mu' = [mu EXCEPT ![id] = IF IsSafe(sets[id]) /\ out.panic THEN LeakR(@) ELSE @]
           /\ last' = [NoCall EXCEPT !.op = "UnmarshalJSON", !.recv = id, !.arg = from,
                                     !.json = b, !.panic = out.panic,
                                     !.ret = ~out.panic /\ ~out.err,
                                     !.n0 = ThreadUnsafeSet_Size(sets[id])]
    /\ UNCHANGED <<pc, loc, iter>>

\* A set A of either variant built from AlgVals and an empty set B of
\* either variant; A is marshalled and B unmarshals the text.
InitJson ==
    /\ sets \in [SetIds -> SetsOver(AlgVals) \cup {Wrap(x) : x \in SetsOver(AlgVals)}]
    /\ sets["B"] \in {NewSet, NewThreadUnsafeSet}
    /\ mu = [i \in SetIds |-> FreeMutex]
    /\ last = NoCall
    /\ Idle

NextJson ==
    \/ last = NoCall /\ MarshalJSON("A")
    \/ last.op = "MarshalJSON" /\ UnmarshalJSON("B", last.json, last.recv)

SpecJson == InitJson /\ [][NextJson]_vars

\* C19: when an empty set unmarshals what MarshalJSON returned for a set
\* whose elements are all ints or all strings, the call returns without a
\* panic or an error and the set then has the hash keys of the marshalled
\* set, and as many entries.
C19_JsonRoundTrip ==
    (/\ last.op = "UnmarshalJSON" /\ last.arg \in SetIds /\ last.n0 = 0
     /\ \A x \in Elems(Arg) : x.typ \in {"int", "string"}) =>
        /\ ~last.panic
        /\ last.ret
        /\ Keys(Recv) = Keys(Arg)
        /\ ThreadUnsafeSet_Size(Recv) = ThreadUnsafeSet_Size(Arg)

\* ------------------------------------------------------- Iter and Iterator
\* The fields of iter:
\*   kind      - the call that made the iterator, "Iter" or "Iterator"
\*   prod      - where the producing goroutine is: "RLock" (guarded sets
\*               only), "range", "close", "RUnlock", "done"
\*   todo      - the keys the range loop has not visited yet
\*   snap      - the mapping as it was when the range loop began
\*   closed    - the element channel (C) is closed
\*   stopped   - the stop channel is closed
\*   got       - the elements received from C outside Stop, in order
\*   ret       - the threads to which a call of Stop has returned
\*   recovered - a Stop has recovered from the panic of its close
\*   escaped   - a panic has left a Stop
\*   late      - a thread has received an element after a Stop returned to it

\* The elements of the iterated set, and what the threads add to it and
\* remove from it meanwhile.
IterElems == {IntVal(n) : n \in 1..MaxInt}

IterVals == {IntVal(1), StrVal("a")}

\* newIterator and the start of the goroutine.  The goroutine of a guarded
\* set begins with set.RLock(), that of an unguarded one with the range loop.
NewIter(kind, set) ==
    IF IsSafe(set)
    THEN [NoIter EXCEPT !.kind = kind, !.prod = "RLock"]
    ELSE [NoIter EXCEPT !.kind = kind, !.prod = "range",
                        !.todo = DOMAIN set.dat, !.snap = set.dat]

\* The goroutine does not take the shared lock.
Iter_NoRLock(m) == m

\* set.RLock() has returned in the goroutine.
IterRLocked(m) == [m EXCEPT !.r = @ + 1]

\* Stop without the deferred recover(): the panic of close leaves the call.
Stop_NoRecover(stopped) == [panic |-> stopped, escaped |-> stopped]

\* close(i.stop) under the deferred recover(): closing a closed channel
\* panics, and the deferred function stops the panic.
StopClosing(stopped) == [panic |-> stopped, escaped |-> FALSE]

\* Iter() and Iterator() return at once; the producer runs on its own.
Iter ==
    /\ iter.kind = "-"
    /\ \E t \in Threads : pc[t] = "idle"
    /\ iter' = NewIter("Iter", sets[G])
    /\ UNCHANGED <<sets, mu, last, pc, loc>>

Iterator ==
    /\ iter.kind = "-"
    /\ \E t \in Threads : pc[t] = "idle"
    /\ iter' = NewIter("Iterator", sets[G])
    /\ UNCHANGED <<sets, mu, last, pc, loc>>

\* The goroutine of a guarded set: set.RLock(), then the range loop begins.
IterRLock ==
    /\ iter.prod = "RLock"
    /\ CanRLock(mu[G])
    /\ mu' = [mu EXCEPT ![G] = IterRLocked(@)]
    /\ iter' = [iter EXCEPT !.prod = "range", !.todo = Keys(sets[G]), !.snap = sets[G].dat]
    /\ UNCHANGED <<sets, last, pc, loc>>

\* The keys the range loop will still produce: an entry deleted before the
\* loop reaches it is not produced.
Pending == iter.todo \cap Keys(sets[G])

\* ch <- obj: the channel has no buffer, so the send is one step with the
\* receive of a thread t that is receiving from the channel.  When the stop
\* channel is closed too, select may take either case.
IterSend(t) ==
    /\ iter.prod = "range"
    /\ pc[t] = "idle"
    /\ \E k \in Pending :
          iter' = [iter EXCEPT !.todo = @ \ {k},
                               !.got = Append(@, sets[G].dat[k]),
                               !.late = @ \/ t \in iter.ret]
    /\ UNCHANGED <<sets, mu, last, pc, loc>>

\* case <-stopCh: break L
IterSelectStop ==
    /\ iter.kind = "Iterator"
    /\ iter.prod = "range"
    /\ Pending # {}
    /\ iter.stopped
    /\ iter' = [iter EXCEPT !.prod = "close"]
    /\ UNCHANGED <<sets, mu, last, pc, loc>>

\* The range loop has visited every entry.
IterRangeEnd ==
    /\ iter.prod = "range"
    /\ Pending = {}
    /\ iter' = [iter EXCEPT !.prod = "close"]
    /\ UNCHANGED <<sets, mu, last, pc, loc>>

\* close(ch)
IterClose ==
    /\ iter.prod = "close"
    /\ iter' = [iter EXCEPT !.closed = TRUE,
                           !.prod = IF IsSafe(sets[G]) THEN "RUnlock" ELSE "done"]
    /\ UNCHANGED <<sets, mu, last, pc, loc>>

\* set.RUnlock(), the last statement of the goroutine of a guarded set.
IterRUnlock ==
    /\ iter.prod = "RUnlock"
    /\ mu' = [mu EXCEPT ![G].r = @ - 1]
    /\ iter' = [iter EXCEPT !.prod = "done"]
    /\ UNCHANGED <<sets, last, pc, loc>>

\* Iterator.Stop, up to its drain loop: close(i.stop) either closes the stop
\* channel, or panics, and then the call returns through its deferred
\* function.
Stop(t) ==
    /\ iter.kind = "Iterator"
    /\ pc[t] = "idle"
    /\ LET c == StopClosing(iter.stopped)
       IN  IF c.panic
           THEN /\ iter' = [iter EXCEPT !.recovered = @ \/ ~c.escaped,
                                        !.escaped = @ \/ c.escaped,
                                        !.ret = IF c.escaped THEN @ ELSE @ \cup {t}]
                /\ UNCHANGED <<pc, loc>>
           ELSE /\ iter' = [iter EXCEPT !.stopped = TRUE]
                /\ pc' = [pc EXCEPT ![t] = "StopDrain"]
                /\ loc' = [loc EXCEPT ![t].op = "Stop"]
    /\ UNCHANGED <<sets, mu, last>>

\* for range i.C {}: an element is received and dropped.
StopDrain(t) ==
    /\ pc[t] = "StopDrain"
    /\ iter.prod = "range"
    /\ \E k \in Pending : iter' = [iter EXCEPT !.todo = @ \ {k}]
    /\ UNCHANGED <<sets, mu, last, pc, loc>>

\* for range i.C {} ends when C is closed, and Stop returns.
StopReturn(t) ==
    /\ pc[t] = "StopDrain"
    /\ iter.closed
    /\ iter' = [iter EXCEPT !.ret = @ \cup {t}]
    /\ pc' = [pc EXCEPT ![t] = "idle"]
    /\ loc' = [loc EXCEPT ![t] = NoLocals]
    /\ UNCHANGED <<sets, mu, last>>

\* A set of ints of either variant.  Two threads iterate over it, stop the
\* iterator and, if the set is guarded, write to it; the unguarded set is
\* not written to while its iterator exists or may come to exist.
InitIter ==
    /\ sets \in [SetIds -> SetsOver(IterElems) \cup {Wrap(x) : x \in SetsOver(IterElems)}]
    /\ sets["B"] = NewThreadUnsafeSet
    /\ mu = [i \in SetIds |-> FreeMutex]
    /\ last = NoCall
    /\ Idle

NextIter ==
    \/ Iter
    \/ Iterator
    \/ IterRLock
    \/ \E t \in Threads : IterSend(t)
    \/ IterSelectStop
    \/ IterRangeEnd
    \/ IterClose
    \/ IterRUnlock
    \/ \E t \in Threads : Stop(t)
    \/ \E t \in Threads : StopDrain(t)
    \/ \E t \in Threads : StopReturn(t)
    \/ \E t \in Threads, val \in IterVals : IsSafe(sets[G]) /\ LockAdd(t, val)
    \/ \E t \in Threads : AddCheck(t)
    \/ \E t \in Threads : AddFix(t)
    \/ \E t \in Threads : AddPut(t)
    \/ \E t \in Threads : IsSafe(sets[G]) /\ LockRemove(t, IntVal(1))
    \/ \E t \in Threads : RemoveDelete(t)
    \/ \E t \in Threads : IsSafe(sets[G]) /\ LockClear(t)
    \/ \E t \in Threads : ClearReset(t)
    \/ \E t \in Threads : IsSafe(sets[G]) /\ LockPop(t)
    \/ \E t \in Threads : PopDelete(t)
    \/ \E t \in Threads : Unlock(t)

SpecIter == InitIter /\ [][NextIter]_vars

\* The producing goroutine runs whenever it can: it is one sequential
\* process, and its sends are taken by the threads that receive from C.
ProducerStep ==
    \/ IterRLock
    \/ \E t \in Threads : IterSend(t)
    \/ IterSelectStop
    \/ IterRangeEnd
    \/ IterClose
    \/ IterRUnlock
    \/ \E t \in Threads : StopDrain(t)

\* A thread inside a call runs on to the end of the call.
ThreadStep(t) ==
    \/ AddCheck(t)
    \/ AddFix(t)
    \/ AddPut(t)
    \/ RemoveDelete(t)
    \/ ClearReset(t)
    \/ PopDelete(t)
    \/ Unlock(t)
    \/ StopReturn(t)

\* A goroutine that waits in RLock gets the lock when the writer unlocks,
\* before any later writer does, so its RLock is not passed over for ever.
FairSpecIter ==
    /\ SpecIter
    /\ SF_vars(IterRLock)
    /\ WF_vars(ProducerStep)
    /\ \A t \in Threads : WF_vars(ThreadStep(t))

\* --------------------------------------------------- the iterator claims
\* C12: no panic leaves a call of Stop, however many calls are made, one
\* after the other or at the same time, before or after the elements were
\* consumed; once a call has closed the stop channel or has returned the
\* iterator is stopped, and a stopped iterator stays stopped.
C12_StopSafe ==
    /\ ~iter.escaped
    /\ (iter.ret # {} \/ \E t \in Threads : pc[t] = "StopDrain") => iter.stopped

C12_StopIsIdempotent == []C12_StopSafe /\ [][iter.stopped => iter'.stopped]_vars

\* Stop has returned to both threads, one of the calls through the
\* recovered panic of its close, after every element had been received.
C12_Witness ==
    /\ iter.ret = Threads /\ iter.recovered
    /\ iter.snap # EmptyDat /\ Len(iter.got) = Cardinality(DOMAIN iter.snap)

\* C13: once a call of Stop has returned, C is closed and no thread it
\* returned to receives an element any more, and the producer goes on to
\* its end (where the goroutine of a guarded set has released the lock).
C13_StopClosesChannel ==
    /\ [](iter.ret # {} => (iter.closed /\ ~iter.late))
    /\ (iter.ret # {}) ~> (iter.prod = "done")

\* C14: when the channel of Iter() is closed, the receivers have got every
\* element the set had when the loop began exactly once, and nothing else;
\* and every Iter() leads to the channel closed and the producer at its end.
C14_IterDeliversAllOnce ==
    /\ []((iter.kind = "Iter" /\ iter.closed) =>
            /\ Len(iter.got) = Cardinality(DOMAIN iter.snap)
            /\ \A k \in DOMAIN iter.snap : \E j \in 1..Len(iter.got) : iter.got[j] = iter.snap[k])
    /\ (iter.kind = "Iter") ~> (iter.closed /\ iter.prod = "done")

\* The goroutine of a guarded set holds the shared lock.
IterHolds == IsSafe(sets[G]) /\ iter.prod \in {"range", "close", "RUnlock"}

\* The last element has been received from the iterator, or a Stop of it
\* has returned.
IterOver == (iter.prod \notin {"-", "RLock"} /\ Pending = {}) \/ iter.ret # {}

\* A call that holds the exclusive lock returns.
WriteReturns ==
    \E t \in Threads : pc[t] = "Unlock" /\ loc[t].held = "W" /\ pc'[t] = "idle"

C23_NoLockHeldAfterCall == \A id \in SetIds : mu[id] = FreeMutex

\* C24: an Add that panics leaves the mapping and the fixed type of its
\* receiver, and the other set, as they were.
C24_AbortedAddChangesNothing ==
    [][(last'.op = "Add" /\ last'.panic) => sets' = sets]_vars

\* ------------------------------------------- two threads that call Add
\* Two threads call Add on one guarded set that is empty at first, with
\* values of different types.
AddVals ==
    {IntVal(n) : n \in 1..MaxInt} \cup {StrVal("a"), StrVal("1"), SliceVal, NumVal("uint8", 1)}

NextAdd ==
    \/ \E t \in Threads, val \in AddVals : LockAdd(t, val)
    \/ \E t \in Threads : AddCheck(t)
    \/ \E t \in Threads : AddFix(t)
    \/ \E t \in Threads : AddPut(t)
    \/ \E t \in Threads : Unlock(t)

SpecAdd == InitConc /\ [][NextAdd]_vars

\* C22: a thread runs the core's Add (the type test, the fixing of the type
\* and the insertion) with the exclusive lock held and no other thread
\* inside a call.  So the thread that finds the set without a type fixes it
\* to the type of its own value and, the value being hashable, inserts it
\* next; a thread whose value is of another type than the fixed one panics
\* at the type test and changes nothing; and the set never holds an element
\* of another type than its fixed type.
C22_AddInv ==
    /\ \A t \in Threads : pc[t] \in {"AddCheck", "AddFix", "AddPut"} =>
          /\ loc[t].held = "W" /\ mu[G].w
          /\ \A u \in Threads \ {t} : pc[u] = "idle"
    /\ \A t \in Threads : pc[t] = "AddPut" => sets[G].typ = loc[t].val.typ
    /\ \A x \in Elems(sets[G]) : x.typ = sets[G].typ

C22_AddStep ==
    \A t \in Threads :
        /\ (pc[t] = "AddCheck" /\ sets[G].typ \notin {NilType, loc[t].val.typ}) =>
              (pc'[t] = "idle" /\ sets' = sets)
        /\ (pc[t] = "AddFix" /\ sets[G].typ = NilType /\ ~calcHash(loc[t].val).err) =>
              (pc'[t] = "AddPut" /\ sets'[G].typ = loc[t].val.typ)
        /\ pc[t] = "AddPut" =>
              (pc'[t] = "Unlock" /\ Stored(sets'[G], loc[t].val) = loc[t].val
               /\ sets'[G].typ = sets[G].typ)

C22_TypeFixingIsAtomic == []C22_AddInv /\ [][C22_AddStep]_vars

\* One thread has fixed the type and inserted its value, and the Add of a
\* value of another type has then panicked with the type conflict: the set
\* holds the one element, of its fixed type, and both threads are outside
\* any call (the lock of the panicked Add is still held).
C22_Witness ==
    /\ \A t \in Threads : pc[t] = "idle"
    /\ mu[G].w
    /\ Cardinality(Keys(sets[G])) = 1
    /\ \A x \in Elems(sets[G]) : x.typ = sets[G].typ

\* ------------------------------------------------ results and their operands
\* A Go map is a reference: two set structs whose dat is the same map see
\* each other's insertions and deletions.  In this part a set carries the
\* address of its map in a field at; a set without that field is one whose
\* map make() has just allocated.
FrameIds == SetIds \cup {"R"}

Addrs == {"A", "B", "R", "X"}

\* No set yet: the variable that will hold the result of the operation.
NilSet == [variant |-> "nil", dat |-> EmptyDat, typ |-> NilType, at |-> "nil"]

Addr(set) == IF "at" \in DOMAIN set THEN set.at ELSE "new"

\* An address no set of ss uses: where make() puts a new map.
NewAddr(ss) == CHOOSE a \in Addrs : \A j \in DOMAIN ss : Addr(ss[j]) # a

At(set, a) == [variant |-> set.variant, dat |-> set.dat, typ |-> set.typ, at |-> a]

\* Variable id now holds set new; the sets that share new's map see its
\* entries.
Through(ss, id, new) ==
    LET a == IF Addr(new) = "new" THEN NewAddr(ss) ELSE Addr(new)
    IN  [j \in DOMAIN ss |->
           IF j = id THEN At(new, a)
           ELSE IF Addr(ss[j]) = a THEN [ss[j] EXCEPT !.dat = new.dat]
           ELSE ss[j]]

FrameVals == {IntVal(1), IntVal(2)}

FrameOps == {"Difference", "Intersect", "SymmetricDifference", "Union"}

\* Two sets of one variant, each with a map of its own, and no result yet.
InitFrame ==
    /\ \E x, y \in SetsOver(FrameVals \cup {StrVal("a")}), v \in Variants :
          sets = [j \in FrameIds |->
                    IF j = "A" THEN At([x EXCEPT !.variant = v], "A")
                    ELSE IF j = "B" THEN At([y EXCEPT !.variant = v], "B")
                    ELSE NilSet]
    /\ mu = [j \in FrameIds |-> FreeMutex]
    /\ last = NoCall
    /\ Idle

\* r := a.op(b): the shared locks of a guarded call as in Binary, and the
\* result assigned to r unless the call panicked.
FrameCall(op, a, b, out) ==
    /\ sets["R"] = NilSet
    /\ ("recv" \in out.rl) => CanRLock(mu[a])
    /\ ("arg" \in out.rl) => CanRLock(mu[b])
    /\ mu' = IF out.leak
             THEN [i \in FrameIds |->
                     IF i = a /\ i = b THEN LeakR(LeakR(mu[i]))
                     ELSE IF i = a \/ i = b THEN LeakR(mu[i]) ELSE mu[i]]
             ELSE mu
    /\ sets' = IF out.panic THEN sets ELSE Through(sets, "R", out.set)
    /\ last' = [NoCall EXCEPT !.op = op, !.recv = a, !.arg = b,
                              !.panic = out.panic, !.set = out.set]
    /\ UNCHANGED <<pc, loc, iter>>

FrameDifference(a, b) ==
    FrameCall("Difference", a, b, Set_Difference(sets[a], sets[b]))

FrameIntersect(a, b) ==
    FrameCall("Intersect", a, b, Set_Intersect(sets[a], sets[b]))

FrameSymmetricDifference(a, b) ==
    FrameCall("SymmetricDifference", a, b, Set_SymmetricDifference(sets[a], sets[b]))

FrameUnion(a, b) ==
    FrameCall("Union", a, b, Set_Union(sets[a], sets[b]))

\* Add on an operand or on the result, as Add above, on a map that other
\* sets may share.
FrameAdd(id, val) ==
    /\ sets["R"] # NilSet
    /\ IsSafe(sets[id]) => CanLock(mu[id])
    /\ LET out == IF IsSafe(sets[id]) THEN ThreadSafeSet_Add(sets[id], mu[id], val)
                  ELSE ThreadUnsafeSet_Add(sets[id], val)
       IN  /\ sets' = Through(sets, id, out.set)
           /\ mu' = [mu EXCEPT ![id] = IF IsSafe(sets[id]) THEN out.mu ELSE @]
           /\ last' = [NoCall EXCEPT !.op = "Add", !.recv = id, !.val = val,
                                     !.panic = out.panic, !.ret = ~out.panic]
    /\ UNCHANGED <<pc, loc, iter>>

FrameRemove(id, val) ==
    /\ sets["R"] # NilSet
    /\ (IsSafe(sets[id]) /\ ~calcHash(val).err) => CanLock(mu[id])
    /\ LET out == ThreadUnsafeSet_Remove(sets[id], val)
       IN  /\ sets' = Through(sets, id, out.set)
           /\ last' = [NoCall EXCEPT !.op = "Remove", !.recv = id, !.val = val,
                                     !.panic = out.panic]
    /\ UNCHANGED <<mu, pc, loc, iter>>

\* Clear gives the set a new map and leaves the old one as it is.
FrameClear(id) ==
    /\ sets["R"] # NilSet
    /\ IsSafe(sets[id]) => CanLock(mu[id])
    /\ sets' = Through(sets, id, [ThreadUnsafeSet_Clear(sets[id])
                                     EXCEPT !.variant = sets[id].variant])
    /\ last' = [NoCall EXCEPT !.op = "Clear", !.recv = id]
    /\ UNCHANGED <<mu, pc, loc, iter>>

NextFrame ==
    \/ \E a, b \in SetIds : FrameDifference(a, b)
    \/ \E a, b \in SetIds : FrameIntersect(a, b)
    \/ \E a, b \in SetIds : FrameSymmetricDifference(a, b)
    \/ \E a, b \in SetIds : FrameUnion(a, b)
    \/ \E id \in FrameIds, val \in FrameVals : FrameAdd(id, val)
    \/ \E id \in FrameIds, val \in FrameVals : FrameRemove(id, val)
    \/ \E id \in FrameIds : FrameClear(id)

SpecFrame == InitFrame /\ [][NextFrame]_vars

\* C26: a call of Union, Intersect, Difference or SymmetricDifference
\* leaves the mapping and the fixed type of both operands as they were, and
\* the set it returns has a map of its own; afterwards an Add, Remove or
\* Clear on the result changes neither operand, and one on an operand
\* changes neither the result nor the other operand.
C26_Frame ==
    /\ (last.op = "New" /\ last'.op \in FrameOps) =>
          /\ \A j \in SetIds : sets'[j] = sets[j]
          /\ ~last'.panic =>
                /\ sets'["R"] # NilSet
                /\ \A j \in SetIds : sets'["R"].at # sets'[j].at
    /\ last'.op \in {"Add", "Remove", "Clear"} =>
          \A j \in FrameIds \ {last'.recv} : sets'[j] = sets[j]

C26_ResultSharesNothing == [][C26_Frame]_vars

\* An Add on the result has just put an entry into it that neither operand
\* holds, after an operation on two sets that are not empty.
C26_Witness ==
    /\ last.op = "Add" /\ last.recv = "R" /\ ~last.panic
    /\ \A j \in SetIds : Keys(sets[j]) # {} /\ Stored(sets[j], last.val) = NoVal
    /\ Stored(sets["R"], last.val) = last.val

\* --------------------------------- binary operations, lock by lock
\* Two threads and two guarded sets.  A thread calls a binary operation,
\* which takes the shared lock of one operand and then of the other, or it
\* calls Add or Remove, whose Lock() first keeps new shared holds out and
\* then waits for the present ones to end.
LockVals == {IntVal(1)}

\* The locals of a call on receiver a with argument b.
LockLocals(op, a, b, val) ==
    [op |-> op, val |-> val, held |-> "-", todo |-> << >>, recv |-> a, arg |-> b]

\* IsSuperset and IsProperSuperset call the operation of the argument, so
\* the argument is locked first.
FirstLock(l) == IF l.op \in {"IsSuperset", "IsProperSuperset"} THEN l.arg ELSE l.recv

SecondLock(l) == IF l.op \in {"IsSuperset", "IsProperSuperset"} THEN l.recv ELSE l.arg

SetCall(op, set, other) ==
    CASE op = "Difference" -> Set_Difference(set, other)
      [] op = "Equal" -> Set_Equal(set, other)
      [] op = "Intersect" -> Set_Intersect(set, other)
      [] op = "IsProperSubset" -> Set_IsProperSubset(set, other)
      [] op = "IsProperSuperset" -> Set_IsProperSuperset(set, other)
      [] op = "IsSubset" -> Set_IsSubset(set, other)
      [] op = "IsSuperset" -> Set_IsSuperset(set, other)
      [] op = "SymmetricDifference" -> Set_SymmetricDifference(set, other)
      [] op = "Union" -> Set_Union(set, other)

\* Thread t calls a.op(b): the type assertion succeeds, both being guarded.
Call(t, op, a, b) ==
    /\ pc[t] = "idle"
    /\ pc' = [pc EXCEPT ![t] = "RLockFirst"]
    /\ loc' = [loc EXCEPT ![t] = LockLocals(op, a, b, NoVal)]
    /\ UNCHANGED <<sets, mu, last, iter>>

\* set.RLock()
RLockFirst(t) ==
    /\ pc[t] = "RLockFirst"
    /\ CanRLock(mu[FirstLock(loc[t])])
    /\ mu' = [mu EXCEPT ![FirstLock(loc[t])].r = @ + 1]
    /\ pc' = [pc EXCEPT ![t] = "RLockSecond"]
    /\ UNCHANGED <<sets, last, loc, iter>>

\* o.RLock()
RLockSecond(t) ==
    /\ pc[t] = "RLockSecond"
    /\ CanRLock(mu[SecondLock(loc[t])])
    /\ mu' = [mu EXCEPT ![SecondLock(loc[t])].r = @ + 1]
    /\ pc' = [pc EXCEPT ![t] = "Return"]
    /\ UNCHANGED <<sets, last, loc, iter>>

\* The operation of the core, both RUnlock() calls and the return; a panic
\* of the core leaves both shared holds behind where the unlocks are not
\* deferred.
Return(t) ==
    /\ pc[t] = "Return"
    /\ LET l == loc[t]
           out == SetCall(l.op, sets[l.recv], sets[l.arg])
           released == [i \in SetIds |->
                          [mu[i] EXCEPT !.r = @ - (IF i = l.recv THEN 1 ELSE 0)
                                            - (IF i = l.arg THEN 1 ELSE 0)]]
       IN  /\ mu' = IF out.leak
                    THEN [i \in SetIds |->
                            IF i = l.recv /\ i = l.arg THEN LeakR(LeakR(released[i]))
                            ELSE IF i = l.recv \/ i = l.arg THEN LeakR(released[i])
                            ELSE released[i]]
                    ELSE released
    /\ pc' = [pc EXCEPT ![t] = "idle"]
    /\ loc' = [loc EXCEPT ![t] = NoLocals]
    /\ UNCHANGED <<sets, last, iter>>

\* Thread t calls Add or Remove on set id; Lock() keeps new shared holds
\* out from now on.  (Remove has computed the hash of val before.)
Lock(t, op, id, val) ==
    /\ pc[t] = "idle"
    /\ ~mu[id].w /\ ~mu[id].pend
    /\ mu' = [mu EXCEPT ![id].pend = TRUE]
    /\ pc' = [pc EXCEPT ![t] = "LockWait"]
    /\ loc' = [loc EXCEPT ![t] = LockLocals(op, id, id, val)]
    /\ UNCHANGED <<sets, last, iter>>

\* Lock() returns when the shared holds have ended.
LockWait(t) ==
    /\ pc[t] = "LockWait"
    /\ CanLock([mu[loc[t].recv] EXCEPT !.pend = FALSE])
    /\ mu' = [mu EXCEPT ![loc[t].recv] = [@ EXCEPT !.pend = FALSE, !.w = TRUE]]
    /\ pc' = [pc EXCEPT ![t] = "Write"]
    /\ UNCHANGED <<sets, last, loc, iter>>

\* The Add or Remove of the core, Unlock() and the return; a panic of Add
\* skips the Unlock().
Write(t) ==
    /\ pc[t] = "Write"
    /\ LET l == loc[t]
           out == IF l.op = "Add" THEN ThreadUnsafeSet_Add(sets[l.recv], l.val)
                  ELSE ThreadUnsafeSet_Remove(sets[l.recv], l.val)
       IN  /\ sets' = [sets EXCEPT ![l.recv] = out.set]
           /\ mu' = [mu EXCEPT ![l.recv].w = out.panic]
    /\ pc' = [pc EXCEPT ![t] = "idle"]
    /\ loc' = [loc EXCEPT ![t] = NoLocals]
    /\ UNCHANGED <<last, iter>>

\* Only the two calls A.Union(B) and B.Union(A), in any interleaving.
NextUnion ==
    \/ \E t \in Threads, a, b \in SetIds : Call(t, "Union", a, b)
    \/ \E t \in Threads : RLockFirst(t)
    \/ \E t \in Threads : RLockSecond(t)
    \/ \E t \in Threads : Return(t)

SpecUnion == InitConc /\ [][NextUnion]_vars

\* A thread inside a call goes on when it can.
InCall(t) == RLockFirst(t) \/ RLockSecond(t) \/ Return(t) \/ LockWait(t) \/ Write(t)

FairSpecUnion == SpecUnion /\ \A t \in Threads : WF_vars(InCall(t))

NextLock ==
    \/ \E t \in Threads, op \in BinaryOps, a, b \in SetIds : Call(t, op, a, b)
    \/ \E t \in Threads : RLockFirst(t)
    \/ \E t \in Threads : RLockSecond(t)
    \/ \E t \in Threads : Return(t)
    \/ \E t \in Threads, op \in {"Add", "Remove"}, id \in SetIds, val \in LockVals :
          Lock(t, op, id, val)
    \/ \E t \in Threads : LockWait(t)
    \/ \E t \in Threads : Write(t)

SpecLock == InitConc /\ [][NextLock]_vars

\* The lock is fair: a call that can take it again and again does take it.
FairSpecLock == SpecLock /\ \A t \in Threads : SF_vars(InCall(t))

\* One thread is inside A.Union(B) and the other inside B.Union(A), each
\* holding the shared lock of its receiver and about to take its argument's.
C21_Crossed ==
    \E t, u \in Threads :
        /\ pc[t] = "RLockSecond" /\ loc[t].op = "Union"
        /\ loc[t].recv = "A" /\ loc[t].arg = "B"
        /\ pc[u] = "RLockSecond" /\ loc[u].op = "Union"
        /\ loc[u].recv = "B" /\ loc[u].arg = "A"

\* C21, as the code has it: with no other thread operating on A or B, the
\* calls A.Union(B) and B.Union(A) of two threads both return in every
\* interleaving; the locks they take are shared and do not exclude each
\* other.
C21_BothUnionsReturn ==
    \A t \in Threads : (pc[t] # "idle") ~> (pc[t] = "idle")

C21_Witness == C21_Crossed /\ mu["A"].r = 1 /\ mu["B"].r = 1

\* C21, as stated: once each of the two calls holds the lock of one operand,
\* neither call ever returns.
C21_CrossedCallsNeverReturn ==
    [](C21_Crossed => [](\A t \in Threads : pc[t] # "idle"))

\* C25: under a fair, writer-preferring lock every call of a binary
\* operation returns, whatever calls of Add and Remove the other thread
\* makes on its operands.
C25_BinaryCallsReturn ==
    \A t \in Threads :
        (pc[t] \in {"RLockFirst", "RLockSecond", "Return"}) ~> (pc[t] = "idle")

====
